---- MODULE Spec2Model ----
\* Model of cudipy/segment/tissue.py: class TissueClassifierHMRF, its
\* constructor and its method classify (the HMRF EM/ICM driver loop).
\*
\* The collaborators (ConstantObservationModel, IteratedConditionalModes,
\* add_noise, get_array_module) live in other modules of the package; their
\* results are nondeterministic choices from small sets.  Arrays whose
\* content never influences the driver (segmentations, likelihood maps,
\* neighbourhood priors, posterior channels) are symbolic values that name
\* the collaborator call that produced them: <<function, call, iteration>>.
\* Arrays the driver itself computes on (the volume, mu, sigma, sigmasq, the
\* energy map) are concrete.
\*
\* Numbers.  Voxel intensities are exact rationals <<num, den>>.  Energies
\* are integers in units of 1e-05 (so the seed 1e-05 is 1); tolerance is an
\* integer numerator over TolDen (so the default 1e-05 is 1).
EXTENDS Integers, Sequences, FiniteSets, TLC

VARIABLES
    \* fields of the TissueClassifierHMRF object
    save_history, verbose, segmentations, pves, energies, energies_sum,
    \* the call in progress: position, arguments, locals of classify
    pc, arg, nclasses, energy_sum, image, mu, sigmasq, seg_init,
    image_gauss, final_segmentation, initial_segmentation, allow_break,
    max_iter, tolerance, i, PVE, energy,
    \* what the caller and the collaborators observe
    ret, raised, exit, stdout, calls, passed, callno, changes, entry_hist,
    \* the contents of the array the caller passed as image
    caller_image

obj_vars == <<save_history, verbose, segmentations, pves, energies, energies_sum>>
frame_vars == <<pc, arg, nclasses, energy_sum, image, mu, sigmasq, seg_init,
                image_gauss, final_segmentation, initial_segmentation,
                allow_break, max_iter, tolerance, i, PVE, energy>>
obs_vars == <<ret, raised, exit, stdout, calls, passed, callno, changes,
              entry_hist, caller_image>>
vars == <<obj_vars, frame_vars, obs_vars>>

-----------------------------------------------------------------------------
\* Bounds of the model.

\* voxels of the volume
NVox == 2
\* calls of classify on one object (specification SpecCalls)
MaxCalls == 2
\* how often the energy map returned by icm_ising may differ from the one of
\* the previous iteration within one call
MaxEnergyChanges == 1

-----------------------------------------------------------------------------
\* Program constants.

\* max_iter default, tissue.py line 96
DefaultMaxIter == 100
\* tolerance default 1e-05 as a numerator over TolDen, tissue.py line 99
DefaultTolerance == 1
\* the unit of tolerance: 1 / TolDen = 1e-05
TolDen == 100000
\* energy_sum = [1e-05] in energy units of 1e-05, tissue.py line 64
EnergySeed == 1
\* the convergence test is evaluated every CheckEvery-th iteration, line 128
CheckEvery == 10
\* the window of the convergence test starts WindowBack entries from the end
WindowBack == 5

\* Python's None for an optional argument; a supplied value x is Some(x)
None == <<>>
Some(x) == <<x>>
\* a local name that is not bound yet
Unbound == <<>>
\* float nan, as a rational with denominator 0
NaN == <<0, 0>>
\* entries of an energy map: a finite energy or -inf
Fin(x) == <<"fin", x>>
NegInf == <<"-inf", 0>>

-----------------------------------------------------------------------------
\* Exact rational arithmetic for voxel intensities.

RECURSIVE Gcd(_, _)
Gcd(a, b) == IF b = 0 THEN a ELSE Gcd(b, a % b)

Abs(x) == IF x < 0 THEN -x ELSE x

\* the rational n/d (d > 0) in lowest terms
Q(n, d) == LET g == Gcd(Abs(n), d) IN <<n \div g, d \div g>>

\* a < b on finite values; every comparison with nan is false
QLess(a, b) == a # NaN /\ b # NaN /\ a[1] * b[2] < b[1] * a[2]
QLeq(a, b) == a # NaN /\ b # NaN /\ a[1] * b[2] <= b[1] * a[2]
QSub(a, b) == Q(a[1] * b[2] - b[1] * a[2], a[2] * b[2])
QMul(a, b) == IF a = NaN \/ b = NaN THEN NaN ELSE Q(a[1] * b[1], a[2] * b[2])
\* numpy true division: 0/0 is nan (a warning, no exception); the driver only
\* divides values in [0, max] by max, so x/0 with x # 0 does not arise
QDiv(a, b) == IF b[1] = 0 THEN NaN ELSE Q(a[1] * b[2], a[2] * b[1])
QZero == <<0, 1>>
QOne == <<1, 1>>

\* ndarray.max() and ndarray.min() of a volume of finite values
ArrMax(img) == CHOOSE x \in {img[v] : v \in DOMAIN img} :
                   \A v \in DOMAIN img : ~QLess(x, img[v])
ArrMin(img) == CHOOSE x \in {img[v] : v \in DOMAIN img} :
                   \A v \in DOMAIN img : ~QLess(img[v], x)

\* The arrays lines 69-72 touch: the caller's array, an array classify may
\* create, and which of the two the local name image is bound to.  At entry
\* the name is bound to the caller's array.
AtEntry(img) == [caller |-> img, own |-> <<>>, bound |-> "caller"]
Deref(h) == IF h.bound = "caller" THEN h.caller ELSE h.own

\* mutant of ShiftStmt: the shift is done in place, image -= image.min()
ShiftStmt_InPlace(h) ==
    LET a == Deref(h)
        shifted == [v \in DOMAIN a |-> QSub(a[v], ArrMin(a))]
    IN IF h.bound = "caller" THEN [h EXCEPT !.caller = shifted]
       ELSE [h EXCEPT !.own = shifted]

\* line 71: image = image - image.min()   (the difference is a new array, and
\* the name is bound to it)
ShiftStmt(h) ==
    LET a == Deref(h)
    IN [h EXCEPT !.own = [v \in DOMAIN a |-> QSub(a[v], ArrMin(a))],
                 !.bound = "own"]

\* line 72: image /= image.max()   (in place, on the array the name is bound
\* to; the maximum is the one of that array, the shifted volume)
DivideStmt(h) ==
    LET a == Deref(h)
        divided == [v \in DOMAIN a |-> QDiv(a[v], ArrMax(a))]
    IN IF h.bound = "caller" THEN [h EXCEPT !.caller = divided]
       ELSE [h EXCEPT !.own = divided]

\* lines 69-72: if image.max() > 1: <line 71>; <line 72>
RescaleStmts(h) ==
    IF QLess(QOne, ArrMax(Deref(h))) THEN DivideStmt(ShiftStmt(h)) ELSE h

\* mutant of Rescale: the shifted volume is divided by the maximum of the
\* input volume
Rescale_ByInputMax(img) ==
    IF QLess(QOne, ArrMax(img))
    THEN [v \in DOMAIN img |-> QDiv(QSub(img[v], ArrMin(img)), ArrMax(img))]
    ELSE img

\* the volume the name image is bound to after lines 69-72
Rescale(img) == Deref(RescaleStmts(AtEntry(img)))

\* the contents of the caller's array after lines 69-72; no later statement
\* of classify writes to an array it did not create (lines 88 and 90 build
\* new arrays; lines 140-142 copy)
CallerArray(img) == RescaleStmts(AtEntry(img)).caller

\* line 88: xp.where(image == 0, zero_noise, image)
WhereZero(img, zero_noise) ==
    [v \in DOMAIN img |-> IF img[v] = QZero THEN zero_noise[v] ELSE img[v]]

-----------------------------------------------------------------------------
\* Class parameters: sequences over the K working classes of rationals or nan.

\* the order argsort sorts by: numbers ascending, nan last
KeyLess(a, b) == IF a = NaN THEN FALSE ELSE IF b = NaN THEN TRUE ELSE QLess(a, b)

\* xp.argsort(m): the permutation p with m[p] ascending (ties keep their
\* order, as numpy's sort does for arrays this small)
ArgSort(m) ==
    LET Before(j, k) == KeyLess(m[j], m[k]) \/ (~KeyLess(m[k], m[j]) /\ j < k)
        Rank(k) == Cardinality({j \in DOMAIN m : Before(j, k)})
    IN [r \in DOMAIN m |-> CHOOSE k \in DOMAIN m : Rank(k) = r - 1]

\* fancy indexing m[p]
Take(m, p) == [r \in DOMAIN p |-> m[p[r]]]

\* sigma ** 2, elementwise
Square(s) == [k \in DOMAIN s |-> QMul(s[k], s[k])]

-----------------------------------------------------------------------------
\* Python lists.

\* s[a:b] of a Python list (0-based, negative indices count from the end,
\* out-of-range indices are clamped)
PySlice(s, a, b) ==
    LET n == Len(s)
        Clamp(x) == IF x < 0 THEN (IF x + n < 0 THEN 0 ELSE x + n)
                    ELSE (IF x > n THEN n ELSE x)
    IN SubSeq(s, Clamp(a) + 1, Clamp(b))

\* np.amax / np.amin of a non-empty list of numbers
SeqMax(s) == CHOOSE x \in {s[k] : k \in DOMAIN s} : \A k \in DOMAIN s : s[k] <= x
SeqMin(s) == CHOOSE x \in {s[k] : k \in DOMAIN s} : \A k \in DOMAIN s : x <= s[k]

\* energy[energy > -xp.inf].sum(): the sum of the finite entries of the map
RECURSIVE FiniteSum(_)
FiniteSum(e) ==
    IF e = <<>> THEN 0
    ELSE (IF Head(e) = NegInf THEN 0 ELSE Head(e)[2]) + FiniteSum(Tail(e))

-----------------------------------------------------------------------------
\* Values the collaborators return.

\* an array produced by collaborator fn in call c of classify, in loop
\* iteration it (-1: before the loop)
Sym(fn, c, it) == <<fn, c, it>>

\* the posterior map returned by prob_image: one channel per working class
Posterior(K, c, it) == [k \in 1..K |-> <<"prob_image", c, it, k - 1>>]

\* a volume whose first voxel holds a and whose other voxels hold b
Vol(a, b) == [v \in 1..NVox |-> IF v = 1 THEN a ELSE b]

\* per-class statistics <<mean, deviation>> an estimator may return: a low
\* class, a high class, and a class without support (undefined statistics)
StatLow == <<Q(1, 4), Q(1, 8)>>
StatHigh == <<Q(3, 4), Q(1, 4)>>
StatNaN == <<NaN, NaN>>
AllStats == {StatLow, StatHigh, StatNaN}

\* what initialize_param_uniform, seg_stats and update_param may return for K
\* classes: the first class has statistic pr[1] and the others pr[2], for a
\* pair pr of Pairs (so results come sorted, unsorted and with undefined
\* entries, whatever K is; some class always has support)
Estimates(K, Pairs) == {[k \in 1..K |-> IF k = 1 THEN pr[1] ELSE pr[2]] : pr \in Pairs}
DefinedPairs == {<<StatLow, StatHigh>>, <<StatHigh, StatLow>>}
AllPairs == (AllStats \X AllStats) \ {<<StatNaN, StatNaN>>}
Means(e) == [k \in DOMAIN e |-> e[k][1]]
Devs(e) == [k \in DOMAIN e |-> e[k][2]]

\* what add_noise(zero, 10000, 1, "gaussian") may return for zero = 0.001:
\* 0.001 plus gaussian noise of deviation 1e-04, per voxel
NoiseVals == {Q(1, 1000), Q(11, 10000)}
Noises == {Vol(a, b) : a \in NoiseVals, b \in NoiseVals}

\* energy maps icm_ising may return
AllEnergyMaps == {Vol(Fin(1), NegInf), Vol(Fin(3), Fin(0)), Vol(Fin(0), Fin(0))}
TwoEnergyMaps == {Vol(Fin(1), NegInf), Vol(Fin(3), Fin(0))}

-----------------------------------------------------------------------------
\* TissueClassifierHMRF.__init__: the object after construction, no call yet.

NoCalls == [initialize_param_uniform |-> 0, negloglikelihood |-> 0,
            initialize_maximum_likelihood |-> 0, seg_stats |-> 0,
            add_noise |-> 0, prob_neighborhood |-> 0, prob_image |-> 0,
            update_param |-> 0, icm_ising |-> 0]

NoArgs == [initialize_param_uniform |-> Unbound, negloglikelihood |-> Unbound,
           initialize_maximum_likelihood |-> Unbound, seg_stats |-> Unbound,
           add_noise |-> Unbound, prob_neighborhood |-> Unbound,
           prob_image |-> Unbound, update_param |-> Unbound,
           icm_ising |-> Unbound]

Init ==
    /\ save_history \in BOOLEAN
    /\ verbose \in BOOLEAN
    /\ segmentations = <<>>
    /\ pves = <<>>
    /\ energies = <<>>
    /\ energies_sum = <<>>
    /\ pc = "idle"
    /\ arg = Unbound
    /\ nclasses = 0
    /\ energy_sum = <<>>
    /\ image = Unbound
    /\ mu = Unbound
    /\ sigmasq = Unbound
    /\ seg_init = Unbound
    /\ image_gauss = Unbound
    /\ final_segmentation = Unbound
    /\ initial_segmentation = Unbound
    /\ allow_break = FALSE
    /\ max_iter = 0
    /\ tolerance = 0
    /\ i = 0
    /\ PVE = Unbound
    /\ energy = Unbound
    /\ ret = Unbound
    /\ raised = "none"
    /\ exit = "none"
    /\ stdout = <<>>
    /\ calls = NoCalls
    /\ passed = NoArgs
    /\ callno = 0
    /\ changes = 0
    /\ entry_hist = <<>>
    /\ caller_image = Unbound

-----------------------------------------------------------------------------
\* classify, lines 62-99: everything before the loop.

\* mutants of AllowBreak: early stopping whenever a tolerance is supplied;
\* early stopping always
AllowBreak_TolOnly(tol, mi) == tol # None
AllowBreak_Always(tol, mi) == TRUE

\* line 93: allow_break = not (max_iter is not None and tolerance is None)
AllowBreak(tol, mi) == ~(mi # None /\ tol = None)

\* lines 95-96: if max_iter is None: max_iter = 100
MaxIterOrDefault(mi) == IF mi = None THEN DefaultMaxIter ELSE mi[1]

\* lines 98-99: if tolerance is None: tolerance = 1e-05
ToleranceOrDefault(tol) == IF tol = None THEN DefaultTolerance ELSE tol[1]

\* mutant of AfterIteration: the loop is not left when the range is exhausted
AfterIteration_NoExit(next_i, mi) == "loop"

\* line 101: the loop body runs for i = 0 .. max_iter - 1; once the range is
\* exhausted (at once when max_iter <= 0) control reaches line 144
AfterIteration(next_i, mi) == IF next_i < mi THEN "loop" ELSE "MaxIterReached"

\* line 91: initial_segmentation = seg_init.copy()
InitialSegmentation(seg) == seg

classify_entry(Images, NClasses, Betas, Tols, MaxIters, Pairs, NCalls) ==
    /\ pc \in {"idle", "returned", "raised"}
    /\ callno < NCalls
    /\ \E img \in Images, n \in NClasses, b \in Betas, tol \in Tols,
          mi \in MaxIters, zero_noise \in Noises :
       \E e0 \in Estimates(n + 1, Pairs), e1 \in Estimates(n + 1, Pairs) :
        LET c == callno + 1
            K == n + 1                                       \* line 63
            im == Rescale(img)                               \* lines 69-72
            p == ArgSort(Means(e0))                          \* lines 74-75
            mu0 == Take(Means(e0), p)                        \* line 76
            sigma0 == Take(Devs(e0), p)                      \* line 77
            sigmasq0 == Square(sigma0)                       \* line 78
            neglogl == Sym("negloglikelihood", c, -1)        \* line 80
            seg == Sym("initialize_maximum_likelihood", c, -1) \* line 81
            zero == Vol(Q(1, 1000), Q(1, 1000))              \* line 86
        IN /\ callno' = c
           /\ arg' = [image |-> img, nclasses |-> n, beta |-> b,
                      tolerance |-> tol, max_iter |-> mi]
           /\ nclasses' = K
           /\ energy_sum' = <<EnergySeed>>                   \* line 64
           /\ image' = im
           /\ caller_image' = CallerArray(img)
           /\ mu' = Means(e1)                                \* line 83
           /\ sigmasq' = Square(Devs(e1))                    \* line 84
           /\ seg_init' = seg
           /\ image_gauss' = WhereZero(im, zero_noise)       \* lines 87-88
           /\ final_segmentation' = Sym("empty_like", c, -1) \* line 90
           /\ initial_segmentation' = InitialSegmentation(seg)
           /\ allow_break' = AllowBreak(tol, mi)
           /\ max_iter' = MaxIterOrDefault(mi)
           /\ tolerance' = ToleranceOrDefault(tol)
           /\ i' = 0
           /\ pc' = AfterIteration(0, MaxIterOrDefault(mi))
           /\ PVE' = Unbound
           /\ energy' = Unbound
           /\ ret' = Unbound
           /\ raised' = "none"
           /\ exit' = "none"
           /\ stdout' = <<>>
           /\ changes' = 0
           /\ entry_hist' = <<segmentations, pves, energies, energies_sum>>
           /\ calls' = [NoCalls EXCEPT !.initialize_param_uniform = 1,
                                       !.negloglikelihood = 1,
                                       !.initialize_maximum_likelihood = 1,
                                       !.seg_stats = 1,
                                       !.add_noise = 1]
           /\ passed' = [NoArgs EXCEPT
                  !.initialize_param_uniform = <<im, K>>,
                  !.negloglikelihood = <<im, mu0, sigmasq0, K>>,
                  !.initialize_maximum_likelihood = <<neglogl>>,
                  !.seg_stats = <<im, seg, K>>,
                  !.add_noise = <<zero, 10000, 1, "gaussian">>]
    /\ UNCHANGED obj_vars

-----------------------------------------------------------------------------
\* classify, lines 101-142: one iteration of the loop.  The variable i is the
\* value the range yields next: the index of the iteration about to run while
\* pc = "loop", the index of the stopping iteration after a break, and
\* max_iter once the range is exhausted.

\* mutant of CheckDue: the test is evaluated every fifth iteration
CheckDue_EveryFifth(ab, idx) == ab /\ idx % 5 = 0 /\ idx # 0

\* line 128: the convergence test is evaluated in this iteration
CheckDue(ab, idx) == ab /\ idx % CheckEvery = 0 /\ idx # 0

\* mutant of Window: the last five entries, energy_sum[size - 5:]
Window_LastFive(es, idx) == PySlice(es, Len(es) - WindowBack, Len(es))

\* lines 133-134: energy_sum[np.size(energy_sum) - 5: i]
Window(es, idx) == PySlice(es, Len(es) - WindowBack, idx)

\* mutant of TestPasses: the comparison is not strict
TestPasses_NonStrict(es, idx, tol) ==
    LET w == PySlice(es, Len(es) - WindowBack, idx)
    IN Abs(SeqMax(w) - SeqMin(w)) * TolDen <= tol * (SeqMax(es) - SeqMin(es))

\* lines 130-137: test_dist < tol, with tol = tolerance * (amax - amin) over
\* the whole list and test_dist = |amax - amin| over the window; tolerance is
\* tol / TolDen, so both sides are multiplied by TolDen
TestPasses(es, idx, tol) ==
    LET w == Window(es, idx)
    IN Abs(SeqMax(w) - SeqMin(w)) * TolDen < tol * (SeqMax(es) - SeqMin(es))

\* mutant of EnergySumAfter: the energy is appended whether or not early
\* stopping is enabled
EnergySumAfter_Always(es, ab, e) == Append(es, FiniteSum(e))

\* lines 119-120: if allow_break: energy_sum.append(float(energy[...].sum()))
EnergySumAfter(es, ab, e) == IF ab THEN Append(es, FiniteSum(e)) ELSE es

\* mutant of Record: the list keeps only the latest entry
Record_KeepLast(list, save, x) == IF save THEN <<x>> ELSE list

\* mutant of Record: the list is extended when the object is verbose
Record_WhenVerbose(list, save, x) == IF verbose THEN Append(list, x) ELSE list

\* lines 122-126: if self.save_history: self.<list>.append(x)
Record(list, save, x) == IF save THEN Append(list, x) ELSE list

\* line 117: the segmentation icm_ising returns in iteration idx of call c
IcmSegmentation(c, idx) == Sym("icm_ising", c, idx)

\* mutant of NextSegInit: the working segmentation is never replaced
NextSegInit_Keep(old, final_seg) == old

\* line 140: seg_init = final_segmentation.copy()
NextSegInit(old, final_seg) == final_seg

classify_iteration(Pairs, EnergyMaps) ==
    /\ pc = "loop"
    /\ i < max_iter
    /\ \E e \in Estimates(nclasses, Pairs), em \in EnergyMaps :
        LET c == callno
            PLN == Sym("prob_neighborhood", c, i)            \* line 106
            pve == Posterior(nclasses, c, i)                 \* line 107
            ind == ArgSort(Means(e))                         \* lines 109-111
            mu_upd == Take(Means(e), ind)                    \* line 112
            sigmasq_upd == Take(Devs(e), ind)                \* line 113
            negll == Sym("negloglikelihood", c, i)           \* lines 115-116
            seg == IcmSegmentation(c, i)                     \* line 117
            es == EnergySumAfter(energy_sum, allow_break, em)
            due == CheckDue(allow_break, i)
            empty == due /\ Window(es, i) = <<>>
            stop == due /\ ~empty /\ TestPasses(es, i, tolerance)
        IN /\ energy = Unbound \/ em = energy \/ changes < MaxEnergyChanges
           /\ changes' = IF energy = Unbound \/ em = energy
                         THEN changes ELSE changes + 1
           /\ stdout' = IF verbose THEN Append(stdout, i) ELSE stdout
           /\ PVE' = pve
           /\ final_segmentation' = seg
           /\ energy' = em
           /\ energy_sum' = es
           /\ segmentations' = Record(segmentations, save_history, seg)
           /\ pves' = Record(pves, save_history, pve)
           /\ energies' = Record(energies, save_history, em)
           /\ energies_sum' = Record(energies_sum, save_history, FiniteSum(em))
           /\ calls' = [calls EXCEPT !.prob_neighborhood = @ + 1,
                                     !.prob_image = @ + 1,
                                     !.update_param = @ + 1,
                                     !.negloglikelihood = @ + 1,
                                     !.icm_ising = @ + 1]
           /\ passed' = [passed EXCEPT
                  !.prob_neighborhood = <<seg_init, arg.beta, nclasses>>,
                  !.prob_image = <<image_gauss, nclasses, mu, sigmasq, PLN>>,
                  !.update_param = <<image_gauss, pve, mu, nclasses>>,
                  !.negloglikelihood =
                      <<image_gauss, mu_upd, sigmasq_upd, nclasses>>,
                  !.icm_ising = <<negll, arg.beta, seg_init>>]
           /\ IF empty
              THEN \* np.amax of an empty list raises
                   /\ pc' = "raised"
                   /\ raised' = "ValueError"
                   /\ UNCHANGED <<seg_init, mu, sigmasq, i, exit>>
              ELSE IF stop
              THEN \* line 138: break
                   /\ pc' = "Converged"
                   /\ exit' = "Converged"
                   /\ UNCHANGED <<seg_init, mu, sigmasq, i, raised>>
              ELSE \* lines 140-142, then the next value of the range
                   /\ seg_init' = NextSegInit(seg_init, seg)
                   /\ mu' = mu_upd
                   /\ sigmasq' = sigmasq_upd
                   /\ i' = i + 1
                   /\ pc' = AfterIteration(i + 1, max_iter)
                   /\ exit' = IF i + 1 < max_iter THEN exit ELSE "MaxIterReached"
                   /\ UNCHANGED raised
    /\ UNCHANGED <<save_history, verbose, arg, nclasses, image, image_gauss,
                   initial_segmentation, allow_break, max_iter, tolerance,
                   ret, callno, entry_hist, caller_image>>

-----------------------------------------------------------------------------
\* classify, lines 144-146: after the loop.

\* mutant of DropBackground: the last channel is dropped, PVE[..., :-1]
DropBackground_Last(pve) == SubSeq(pve, 1, Len(pve) - 1)

\* line 144: PVE[..., 1:]
DropBackground(pve) == SubSeq(pve, 2, Len(pve))

\* mutants of ReturnValue: the working segmentation seg_init is returned as
\* the final segmentation; as the initial segmentation
ReturnValue_FinalIsWorking(init_seg, final_seg, pve) == <<init_seg, seg_init, pve>>
ReturnValue_InitIsWorking(init_seg, final_seg, pve) == <<seg_init, final_seg, pve>>

\* line 146: return initial_segmentation, final_segmentation, PVE
ReturnValue(init_seg, final_seg, pve) == <<init_seg, final_seg, pve>>

classify_return ==
    /\ pc \in {"Converged", "MaxIterReached"}
    /\ IF PVE = Unbound
       THEN \* line 144 reads PVE, which no iteration has bound
            /\ pc' = "raised"
            /\ raised' = "UnboundLocalError"
            /\ UNCHANGED <<PVE, ret>>
       ELSE /\ pc' = "returned"
            /\ PVE' = DropBackground(PVE)
            /\ ret' = ReturnValue(initial_segmentation, final_segmentation,
                                  DropBackground(PVE))
            /\ UNCHANGED raised
    /\ UNCHANGED <<obj_vars, arg, nclasses, energy_sum, image, mu, sigmasq,
                   seg_init, image_gauss, final_segmentation,
                   initial_segmentation, allow_break, max_iter, tolerance, i,
                   energy, exit, stdout, calls, passed, callno, changes,
                   entry_hist, caller_image>>

-----------------------------------------------------------------------------
\* Specifications.

\* the single volume of the specifications that do not vary the volume
OneImage == {Vol(Q(0, 1), Q(1, 2))}

\* Spec: one call; tolerance and max_iter supplied or not, iteration
\* budgets below and above the first convergence checks
SpecEntry ==
    classify_entry(OneImage, {1}, {1}, {None, Some(50000)},
                   {None, Some(3), Some(12)}, DefinedPairs, 1)
SpecIteration == classify_iteration(DefinedPairs, AllEnergyMaps)

Next ==
    \/ SpecEntry
    \/ SpecIteration
    \/ classify_return

Spec == Init /\ [][Next]_vars

\* FairSpec: calls on a default object with estimators that return sorted,
\* defined statistics.  classify runs on one thread from entry to return, so an
\* enabled step of the loop or of the return is eventually taken.
SortedPair == {<<StatLow, StatHigh>>}
FairEntry ==
    classify_entry(OneImage, {1}, {1}, {None, Some(50000)},
                   {None, Some(12)}, SortedPair, 1)
FairIteration == classify_iteration(SortedPair, TwoEnergyMaps)

FairNext ==
    \/ FairEntry
    \/ FairIteration
    \/ classify_return

\* line 17: the object built with the constructor's defaults
DefaultInit == Init /\ save_history = FALSE /\ verbose = TRUE

FairSpec ==
    /\ DefaultInit /\ [][FairNext]_vars
    /\ WF_vars(FairIteration) /\ WF_vars(classify_return)

\* SpecArgs: one call over valid and invalid arguments (nclasses 1 and 2, a
\* negative beta, a zero tolerance, a zero max_iter)
ArgsEntry ==
    classify_entry(OneImage, {1, 2}, {1, -1}, {None, Some(1), Some(0)},
                   {Some(0), Some(1), Some(12)}, SortedPair, 1)
ArgsIteration == classify_iteration(SortedPair, TwoEnergyMaps)

ArgsNext ==
    \/ ArgsEntry
    \/ ArgsIteration
    \/ classify_return

SpecArgs == Init /\ [][ArgsNext]_vars

\* SpecCalls: up to MaxCalls calls in a row on one object, each with or
\* without an early stop; the collaborators always answer the same
OneEnergyMap == {Vol(Fin(3), Fin(0))}
CallsEntry ==
    classify_entry(OneImage, {1}, {1}, {None, Some(50000)},
                   {Some(2), Some(12)}, SortedPair, MaxCalls)
CallsIteration == classify_iteration(SortedPair, OneEnergyMap)

CallsNext ==
    \/ CallsEntry
    \/ CallsIteration
    \/ classify_return

SpecCalls == Init /\ [][CallsNext]_vars

\* SpecParams: one call of two iterations in which every estimator may
\* return sorted, unsorted and undefined statistics
ParamsEntry ==
    classify_entry(OneImage, {1, 2}, {1}, {None}, {Some(2)}, AllPairs, 1)
ParamsIteration == classify_iteration(AllPairs, OneEnergyMap)

ParamsNext ==
    \/ ParamsEntry
    \/ ParamsIteration
    \/ classify_return

SpecParams == Init /\ [][ParamsNext]_vars

\* SpecConv: one call of up to 25 iterations, with early stopping enabled at
\* tolerance 0.5 or disabled, on energy maps whose sums are 2, 3 and the seed
\* value 1; history recording on or off
ConvEnergyMaps == {Vol(Fin(2), Fin(0)), Vol(Fin(3), NegInf), Vol(Fin(1), Fin(0))}
ConvEntry ==
    classify_entry(OneImage, {1}, {1}, {None, Some(50000)}, {Some(25)},
                   SortedPair, 1)
ConvIteration == classify_iteration(SortedPair, ConvEnergyMaps)

ConvNext ==
    \/ ConvEntry
    \/ ConvIteration
    \/ classify_return

ConvInit == Init /\ verbose = TRUE

SpecConv == ConvInit /\ [][ConvNext]_vars

\* SpecImages: one call of one iteration on each volume with intensities
\* below, at and above 1, with and without exact zeros, constant or not
ImageVals == {Q(-1, 1), Q(0, 1), Q(1, 2), Q(1, 1), Q(2, 1), Q(4, 1)}
AllImages == {Vol(a, b) : a \in ImageVals, b \in ImageVals}
ImagesEntry ==
    classify_entry(AllImages, {1}, {1}, {None}, {Some(1)}, SortedPair, 1)
ImagesIteration == classify_iteration(SortedPair, OneEnergyMap)

ImagesNext ==
    \/ ImagesEntry
    \/ ImagesIteration
    \/ classify_return

SpecImages == DefaultInit /\ [][ImagesNext]_vars

\* SpecHandoff: one call of three iterations, with early stopping enabled or
\* not, in which every estimator may return sorted, unsorted and undefined
\* statistics, so that the parameters differ from iteration to iteration
HandoffEntry ==
    classify_entry(OneImage, {1}, {1}, {None, Some(1)}, {Some(3)}, AllPairs, 1)
HandoffIteration == classify_iteration(AllPairs, OneEnergyMap)

HandoffNext ==
    \/ HandoffEntry
    \/ HandoffIteration
    \/ classify_return

SpecHandoff == ConvInit /\ [][HandoffNext]_vars

\* SpecVerbose: two calls on one object that records its history, with the
\* same arguments; between the calls the caller inverts the object's verbose
\* attribute, and in the second call every collaborator answers as it did in
\* the first (the energy maps are those the first call recorded, the noise is
\* the same).
caller_sets_verbose ==
    /\ pc = "returned" /\ callno = 1
    /\ verbose' = ~verbose
    /\ pc' = "idle"
    /\ UNCHANGED <<save_history, segmentations, pves, energies, energies_sum,
                   arg, nclasses, energy_sum, image, mu, sigmasq, seg_init,
                   image_gauss, final_segmentation, initial_segmentation,
                   allow_break, max_iter, tolerance, i, PVE, energy, obs_vars>>

ReplayedEnergyMaps ==
    IF callno = 2 /\ i < Len(entry_hist[3])
    THEN {entry_hist[3][i + 1]}
    ELSE ConvEnergyMaps

VerboseEntry ==
    /\ callno = 0 \/ pc = "idle"
    /\ classify_entry(OneImage, {1}, {1}, {Some(50000)}, {Some(25)},
                      SortedPair, 2)
    /\ callno = 1 => image_gauss' = image_gauss
VerboseIteration == classify_iteration(SortedPair, ReplayedEnergyMaps)

VerboseNext ==
    \/ VerboseEntry
    \/ VerboseIteration
    \/ classify_return
    \/ caller_sets_verbose

VerboseInit == Init /\ save_history = TRUE

SpecVerbose == VerboseInit /\ [][VerboseNext]_vars

-----------------------------------------------------------------------------
\* Properties.

\* a call has been entered (its arguments are bound)
InCall == callno > 0
\* the number of loop bodies executed so far in the current call
Executed == calls.icm_ising
\* the current call has left the loop
LoopOver == pc \in {"Converged", "MaxIterReached", "returned", "raised"}

\* C1: early stopping is disabled exactly when max_iter is supplied and
\* tolerance is not; in the three other combinations it is enabled; an absent
\* max_iter becomes 100 and an absent tolerance 1e-05 (1 over 100000).
C1_EarlyStopPolicy ==
    InCall =>
        /\ (arg.max_iter # None /\ arg.tolerance = None) => ~allow_break
        /\ (arg.max_iter = None /\ arg.tolerance = None) => allow_break
        /\ (arg.max_iter = None /\ arg.tolerance # None) => allow_break
        /\ (arg.max_iter # None /\ arg.tolerance # None) => allow_break
        /\ arg.max_iter = None => max_iter = 100
        /\ arg.tolerance = None => (tolerance = 1 /\ TolDen = 100000)

\* C1 witness: a call with neither argument supplied has returned with early
\* stopping enabled and the defaults in force
C1_Witness ==
    /\ InCall /\ pc = "returned"
    /\ arg.max_iter = None /\ arg.tolerance = None
    /\ allow_break /\ max_iter = 100 /\ tolerance = 1

\* C2: with max_iter supplied and tolerance not, the loop body (prior,
\* posterior, parameter update, likelihood, ICM sweep) runs exactly max_iter
\* times: never more while the loop runs, exactly max_iter once it is over,
\* and the loop is never left by the early stop.
C2_ExactlyMaxIter ==
    (InCall /\ arg.max_iter # None /\ arg.tolerance = None) =>
        /\ Executed <= arg.max_iter[1]
        /\ calls.prob_neighborhood = Executed
        /\ calls.prob_image = Executed
        /\ calls.update_param = Executed
        /\ calls.negloglikelihood = Executed + 1
        /\ pc = "loop" => i = Executed
        /\ LoopOver => (Executed = arg.max_iter[1] /\ exit = "MaxIterReached")

\* C2 witness: 12 iterations were run although the energy never changed, so
\* that the convergence test of iteration 10 would have stopped the loop
C2_Witness ==
    /\ InCall /\ pc = "returned"
    /\ arg.max_iter = Some(12) /\ arg.tolerance = None
    /\ Executed = 12
    /\ save_history
    /\ \A j \in DOMAIN energies_sum : energies_sum[j] = 3

\* C4: with valid arguments a call never raises, never runs more than
\* max_iter iterations, leaves the loop in exactly one of the two terminal
\* states Converged (the stopping test fired in the last executed iteration)
\* and MaxIterReached (all max_iter iterations ran without a stop), and, once
\* started, eventually returns the triple of the two segmentations and the
\* partial-volume map.
ValidArgs ==
    /\ arg.nclasses >= 1
    /\ arg.beta >= 0
    /\ arg.tolerance # None => arg.tolerance[1] > 0
    /\ arg.max_iter # None => arg.max_iter[1] >= 1

C4_State ==
    (InCall /\ ValidArgs) =>
        /\ raised = "none" /\ pc # "raised"
        /\ Executed <= max_iter
        /\ pc = "loop" => (i < max_iter /\ exit = "none")
        /\ LoopOver => exit \in {"Converged", "MaxIterReached"}
        /\ exit = "Converged" =>
              /\ allow_break /\ Executed = i + 1
              /\ CheckDue(allow_break, i)
              /\ TestPasses(energy_sum, i, tolerance)
        /\ exit = "MaxIterReached" => (Executed = max_iter /\ i = max_iter)
        /\ pc = "returned" =>
              ret = <<initial_segmentation, final_segmentation, PVE>>

\* C4 (formula): C4_State always holds, and a valid call that has entered
\* the loop eventually returns.
C4_Terminates ==
    /\ []C4_State
    /\ (InCall /\ ValidArgs /\ pc = "loop") ~> (pc = "returned")

\* C4 witness: a call with valid arguments returned after the stopping test
\* fired before the budget of 100 iterations was used up
C4_Witness ==
    /\ InCall /\ ValidArgs /\ pc = "returned"
    /\ exit = "Converged" /\ Executed < max_iter /\ Len(ret) = 3

\* the last loop iteration the current call executed
LastIteration == Executed - 1

\* C5: the final segmentation classify returns is the one the ICM sweep of
\* the last executed iteration produced, whether the loop ended by
\* exhausting max_iter or by the early stop.
C5_FinalSegmentation ==
    (InCall /\ pc = "returned") =>
        /\ exit \in {"Converged", "MaxIterReached"}
        /\ ret[2] = <<"icm_ising", callno, LastIteration>>
        /\ passed.icm_ising[1] = <<"negloglikelihood", callno, LastIteration>>

\* C5 witness: a call returned after an early stop in an iteration later than
\* the first, with the sweep of that iteration as its final segmentation
C5_Witness ==
    /\ InCall /\ pc = "returned" /\ exit = "Converged"
    /\ LastIteration = 10
    /\ ret[2] = <<"icm_ising", callno, 10>>
    /\ seg_init = <<"icm_ising", callno, 9>>

\* C6: the initial segmentation classify returns is the pre-loop
\* maximum-likelihood labelling (computed from the pre-loop likelihood map),
\* and no loop iteration changes it, although the loop replaces the working
\* segmentation seg_init.
C6_InitialSegmentation ==
    InCall =>
        /\ initial_segmentation = <<"initialize_maximum_likelihood", callno, -1>>
        /\ passed.initialize_maximum_likelihood =
               <<(<<"negloglikelihood", callno, -1>>)>>
        /\ calls.initialize_maximum_likelihood = 1
        /\ pc = "returned" => ret[1] = initial_segmentation

\* C6 witness: a call returned its initial segmentation after the loop had
\* replaced the working segmentation
C6_Witness ==
    /\ InCall /\ pc = "returned" /\ Executed >= 2
    /\ seg_init # initial_segmentation
    /\ ret[1] = <<"initialize_maximum_likelihood", callno, -1>>

\* C3: a call with an invalid argument (nclasses < 1, beta < 0, a supplied
\* tolerance or max_iter that is not positive) fails at entry: it raises
\* before any collaborator (parameter initialisation, likelihood, ...) is
\* called and before any loop iteration.
C3_RejectAtEntry ==
    (InCall /\ ~ValidArgs) =>
        /\ pc = "raised"
        /\ calls = NoCalls
        /\ Executed = 0

\* C7: the partial-volume map classify returns is the posterior map of the
\* last executed iteration without its channel 0: the channels 1 .. K-1 of
\* that map, K-1 = nclasses of them, where K = nclasses + 1 classes were
\* passed to prob_image.
C7_PartialVolume ==
    (InCall /\ pc = "returned") =>
        /\ nclasses = arg.nclasses + 1
        /\ passed.prob_image[2] = nclasses
        /\ Len(ret[3]) = arg.nclasses
        /\ ret[3] = [k \in 1..arg.nclasses |->
                        <<"prob_image", callno, LastIteration, k>>]

\* C7 witness: a call with nclasses = 2 returned two channels after an early
\* stop
C7_Witness ==
    /\ InCall /\ pc = "returned" /\ exit = "Converged"
    /\ arg.nclasses = 2 /\ LastIteration = 10
    /\ ret[3] = <<(<<"prob_image", callno, 10, 1>>),
                  (<<"prob_image", callno, 10, 2>>)>>

\* the entries a call that has executed n iterations has added to a list
\* whose entry for iteration j is Entry(j)
Added(n, Entry(_)) == [j \in 1..n |-> Entry(j - 1)]

\* C8: with save_history enabled a call that has executed n iterations has
\* appended exactly n entries to segmentations, pves and energies, entry j
\* being the ICM segmentation, the posterior map and the energy map of
\* iteration j (the iteration of an early stop included); every iteration
\* appends its own energy map and no other step touches the lists.  With
\* save_history disabled the lists stay as they were when the call began.
C8_State ==
    InCall =>
        /\ save_history =>
            /\ segmentations = entry_hist[1] \o
                   Added(Executed, LAMBDA j : <<"icm_ising", callno, j>>)
            /\ pves = entry_hist[2] \o
                   Added(Executed, LAMBDA j :
                       [k \in 1..nclasses |-> <<"prob_image", callno, j, k - 1>>])
            /\ Len(energies) = Len(entry_hist[3]) + Executed
            /\ Executed > 0 => energies[Len(energies)] = energy
        /\ ~save_history =>
            <<segmentations, pves, energies, energies_sum>> = entry_hist

\* C8 (formula): C8_State always holds, every iteration of a recording
\* call appends its energy map, and no other step changes the lists.
C8_History ==
    /\ []C8_State
    /\ [][(save_history /\ Executed' = Executed + 1)
              => energies' = Append(energies, energy')]_vars
    /\ [][Executed' = Executed
              => UNCHANGED <<segmentations, pves, energies>>]_vars

\* C8 witness: with save_history enabled a call stopped early in iteration 10
\* and recorded 11 entries, the energy maps not all equal
C8_Witness ==
    /\ InCall /\ save_history /\ pc = "returned" /\ exit = "Converged"
    /\ Len(segmentations) = 11 /\ Len(pves) = 11 /\ Len(energies) = 11
    /\ segmentations[11] = <<"icm_ising", callno, 10>>
    /\ energies[1] # energies[11]

\* C9: after any sequence of calls with save_history enabled the lists hold
\* only the entries of the most recent call.
C9_HistoryPerCall ==
    (InCall /\ save_history /\ pc = "returned") =>
        /\ Len(segmentations) = Executed
        /\ Len(pves) = Executed
        /\ Len(energies) = Executed
        /\ \A j \in DOMAIN segmentations : segmentations[j][2] = callno

\* no entry of a parameter vector is undefined
Defined(m) == \A k \in DOMAIN m : m[k] # NaN

\* C10: an undefined mean or variance returned by seg_stats or update_param
\* is never passed on: every posterior computation and every likelihood
\* computation of the loop receives defined parameters, unless the call has
\* failed.
C10_NoUndefinedParams ==
    (InCall /\ pc # "raised") =>
        /\ calls.prob_image > 0 =>
              (Defined(passed.prob_image[3]) /\ Defined(passed.prob_image[4]))
        /\ calls.negloglikelihood > 1 =>
              /\ Defined(passed.negloglikelihood[2])
              /\ Defined(passed.negloglikelihood[3])

\* the means m are in ascending order (undefined entries last)
Ascending(m) == \A j \in DOMAIN m, k \in DOMAIN m : j < k => ~KeyLess(m[k], m[j])

\* every class carries the deviation its estimator returned with its mean:
\* squared, where the variance is the square of a returned deviation (lines
\* 78 and 84), as returned by update_param (line 113)
PairedSquared(m, s) ==
    \A k \in DOMAIN m : \E st \in AllStats : m[k] = st[1] /\ s[k] = QMul(st[2], st[2])
PairedAsReturned(m, s) ==
    \A k \in DOMAIN m : \E st \in AllStats : m[k] = st[1] /\ s[k] = st[2]

\* C11: the class means are in ascending order, and the variances permuted
\* with them, at every use after an estimation step: in the likelihood
\* evaluation before the loop, in the posterior computation of every
\* iteration, iteration 0 included, and in every likelihood evaluation of the
\* loop.
C11_SortedAtEveryUse ==
    InCall =>
        /\ calls.negloglikelihood = 1 =>
              /\ Ascending(passed.negloglikelihood[2])
              /\ PairedSquared(passed.negloglikelihood[2],
                               passed.negloglikelihood[3])
        /\ calls.negloglikelihood > 1 =>
              /\ Ascending(passed.negloglikelihood[2])
              /\ PairedAsReturned(passed.negloglikelihood[2],
                                  passed.negloglikelihood[3])
        /\ calls.prob_image = 1 =>
              /\ Ascending(passed.prob_image[3])
              /\ PairedSquared(passed.prob_image[3], passed.prob_image[4])
        /\ calls.prob_image > 1 =>
              /\ Ascending(passed.prob_image[3])
              /\ PairedAsReturned(passed.prob_image[3], passed.prob_image[4])

\* C13: the loop is left early only in an iteration whose index is a positive
\* multiple of 10, so a call that has left the loop has executed either
\* max_iter iterations or 10 * m + 1 iterations for some m >= 1, and a call
\* with max_iter <= 10 is never stopped early, even with early stopping
\* enabled.
C13_CheckEveryTenth ==
    InCall =>
        /\ exit = "Converged" =>
              /\ i % 10 = 0 /\ i >= 10
              /\ Executed = i + 1
              /\ \E m \in 1..max_iter : Executed = 10 * m + 1
        /\ (LoopOver /\ raised = "none") =>
              \/ exit = "MaxIterReached" /\ Executed = max_iter
              \/ exit = "Converged" /\ Executed < max_iter
        /\ max_iter <= 10 => exit # "Converged"
        /\ raised # "ValueError"

\* C13 witness: a call with early stopping enabled that was not stopped by the
\* test of iteration 10 and was stopped by the test of iteration 20
C13_Witness ==
    /\ InCall /\ allow_break /\ pc = "returned"
    /\ exit = "Converged" /\ i = 20 /\ Executed = 21

\* C13 witness of the short call: early stopping enabled, max_iter = 3, all
\* three iterations run on an energy that never changed
C13_WitnessShort ==
    /\ InCall /\ allow_break /\ max_iter = 3 /\ pc = "returned"
    /\ Executed = 3 /\ changes = 0

\* the last executed iteration evaluated the convergence test
CheckedLast == InCall /\ Executed >= 1 /\ raised = "none"
               /\ allow_break /\ LastIteration % 10 = 0 /\ LastIteration > 0

\* the spread of the window the test of iteration idx looks at, and the range
\* of the whole energy history, current iteration and seed included
WindowSpread(es, idx) ==
    LET w == SubSeq(es, Len(es) - 4, idx)
        hi == CHOOSE x \in {w[k] : k \in DOMAIN w} : \A k \in DOMAIN w : w[k] <= x
        lo == CHOOSE x \in {w[k] : k \in DOMAIN w} : \A k \in DOMAIN w : w[k] >= x
    IN IF hi >= lo THEN hi - lo ELSE lo - hi
HistoryRange(es) ==
    LET hi == CHOOSE x \in {es[k] : k \in DOMAIN es} : \A k \in DOMAIN es : es[k] <= x
        lo == CHOOSE x \in {es[k] : k \in DOMAIN es} : \A k \in DOMAIN es : es[k] >= x
    IN hi - lo

\* C14: an iteration that evaluates the convergence test stops the loop
\* exactly when the spread of the window is strictly less than tolerance
\* times the range of the whole energy history, which holds the seed and the
\* energy of the current iteration (tolerance is tolerance / TolDen).
C14_StopRule ==
    CheckedLast =>
        (exit = "Converged" <=>
            WindowSpread(energy_sum, LastIteration) * TolDen
                < tolerance * HistoryRange(energy_sum))

\* C14 witness: the test of iteration 10 found the spread equal to tolerance
\* times the range, both positive, and the loop went on
C14_Witness ==
    /\ CheckedLast /\ LastIteration = 10 /\ pc = "loop"
    /\ HistoryRange(energy_sum) > 0
    /\ WindowSpread(energy_sum, 10) * TolDen = tolerance * HistoryRange(energy_sum)

\* C14 witness of a stop: the test of iteration 10 stopped the loop
C14_WitnessStop ==
    /\ CheckedLast /\ LastIteration = 10 /\ exit = "Converged"
    /\ WindowSpread(energy_sum, 10) = 0 /\ HistoryRange(energy_sum) = 2

\* the sum of the finite entries of an energy map
SumOfFinite(e) ==
    LET S[k \in 0..Len(e)] ==
            IF k = 0 THEN 0
            ELSE S[k - 1] + (IF e[k][1] = "fin" THEN e[k][2] ELSE 0)
    IN S[Len(e)]

\* C15: the energy history of a call starts as the seed alone.  With early
\* stopping enabled every executed iteration appends exactly one value, the
\* sum of the finite entries of its energy map: after n iterations the history
\* has n + 1 entries and entry j >= 1 (0-based) belongs to iteration j - 1.
\* With early stopping disabled nothing is ever appended.
C15_State ==
    (InCall /\ raised = "none") =>
        /\ energy_sum[1] = 1
        /\ ~allow_break => energy_sum = <<1>>
        /\ allow_break =>
              /\ Len(energy_sum) = Executed + 1
              /\ Executed >= 1 => energy_sum[Executed + 1] = SumOfFinite(energy)
              /\ save_history =>
                    \A j \in 1..Executed :
                        energy_sum[j + 1] = SumOfFinite(energies[j])

C15_EnergyHistory ==
    /\ []C15_State
    /\ [][(InCall /\ allow_break /\ Executed' = Executed + 1) =>
              energy_sum' = Append(energy_sum, SumOfFinite(energy'))]_vars
    /\ [][(InCall /\ Executed' = Executed) => energy_sum' = energy_sum]_vars

\* C15 witness: eleven iterations with early stopping enabled left twelve
\* entries, the last one the sum of a map with a -inf entry
C15_Witness ==
    /\ InCall /\ allow_break /\ save_history /\ pc = "returned"
    /\ Executed = 11 /\ Len(energy_sum) = 12
    /\ energy = Vol(Fin(3), NegInf) /\ energy_sum[12] = 3
    /\ energy_sum[2] = 2

\* C15 witness with early stopping disabled: 25 iterations, nothing appended
C15_WitnessDisabled ==
    /\ InCall /\ ~allow_break /\ pc = "returned"
    /\ Executed = 25 /\ energy_sum = <<1>>

\* C16: at every convergence check, in iteration i, the window
\* energy_sum[len - 5 : i] is history[max(0, len - 5) : i], is not empty, and
\* consists of exactly the three entries at 0-based positions i - 3, i - 2 and
\* i - 1, the energies of iterations i - 4, i - 3 and i - 2; the two most
\* recent entries are not in it.
C16_Window ==
    CheckedLast =>
        LET es == energy_sum
            idx == LastIteration
            w == Window(es, idx)
            from == IF Len(es) - 5 > 0 THEN Len(es) - 5 ELSE 0
        IN /\ w = [k \in 1..(idx - from) |-> es[from + k]]
           /\ w # <<>>
           /\ Len(w) = 3
           /\ w = <<es[idx - 2], es[idx - 1], es[idx]>>
           /\ Len(es) = idx + 2
           /\ save_history =>
                 w = <<SumOfFinite(energies[idx - 3]),
                       SumOfFinite(energies[idx - 2]),
                       SumOfFinite(energies[idx - 1])>>

\* C16 witness: the check of iteration 20, on a history whose last two
\* entries differ from the three entries of the window
C16_Witness ==
    /\ CheckedLast /\ LastIteration = 20 /\ save_history
    /\ Window(energy_sum, 20) = <<1, 1, 1>>
    /\ energy_sum[21] = 3 /\ energy_sum[22] = 3

\* C17: every likelihood evaluation of classify, the one before the loop and
\* the one of each iteration, is computed on the volume in which the exact
\* zeros have been replaced by noise; no likelihood evaluation receives a
\* volume with an exact-zero voxel.
C17_LikelihoodOnNoisyVolume ==
    (InCall /\ calls.negloglikelihood >= 1) =>
        /\ passed.negloglikelihood[1] = image_gauss
        /\ \A v \in DOMAIN passed.negloglikelihood[1] :
               passed.negloglikelihood[1][v] # QZero

\* the part of C17 that concerns the loop: the likelihood evaluation and the
\* posterior computation of an iteration receive the volume with the zeros
\* replaced
LoopOnNoisyVolume ==
    (InCall /\ Executed >= 1) =>
        /\ passed.negloglikelihood[1] = image_gauss
        /\ passed.prob_image[1] = image_gauss
        /\ \A v \in DOMAIN image_gauss : image_gauss[v] # QZero

\* the minimum and the maximum of a volume of finite values
VolMin(img) == CHOOSE x \in {img[v] : v \in DOMAIN img} :
                   \A v \in DOMAIN img : QLeq(x, img[v])
VolMax(img) == CHOOSE x \in {img[v] : v \in DOMAIN img} :
                   \A v \in DOMAIN img : QLeq(img[v], x)

\* C18 as stated: if the maximum of the input volume exceeds 1, every voxel x
\* of the working volume is (x - min) / max, with the minimum and the maximum
\* of the input volume, and lies in [0, 1]; otherwise the working volume is
\* the input volume.
C18_RescaleByInputMax ==
    InCall =>
        LET in == arg.image
        IN IF QLess(QOne, VolMax(in))
           THEN \A v \in DOMAIN in :
                   /\ image[v] = QDiv(QSub(in[v], VolMin(in)), VolMax(in))
                   /\ QLeq(QZero, image[v]) /\ QLeq(image[v], QOne)
           ELSE image = in

\* C18, amended: if the maximum of the input volume exceeds 1, every voxel x
\* of the working volume is (x - min) / (max - min), which lies in [0, 1],
\* when the volume is not constant, and is nan (0/0) when it is constant;
\* otherwise the working volume is the input volume.
C18_RescaleByRange ==
    InCall =>
        LET in == arg.image
            range == QSub(VolMax(in), VolMin(in))
        IN IF QLess(QOne, VolMax(in))
           THEN \A v \in DOMAIN in :
                   IF range = QZero
                   THEN image[v] = NaN
                   ELSE /\ image[v] = QDiv(QSub(in[v], VolMin(in)), range)
                        /\ QLeq(QZero, image[v]) /\ QLeq(image[v], QOne)
           ELSE image = in

\* C18 witness: the volume with intensities 1 and 4 was rescaled to 0 and 1
C18_Witness ==
    /\ InCall /\ pc = "returned"
    /\ arg.image = Vol(Q(1, 1), Q(4, 1))
    /\ image = Vol(Q(0, 1), Q(1, 1))

\* C18 witness of the constant volume: intensities 2 and 2 became nan
C18_WitnessConstant ==
    /\ InCall /\ arg.image = Vol(Q(2, 1), Q(2, 1)) /\ image = Vol(NaN, NaN)

\* C20: classify never modifies the caller's input volume: after the call, and
\* at every point of it, the array passed as image holds the values it held
\* at entry, whether its maximum exceeds 1 (the volume is rescaled) or not.
C20_InputUntouched ==
    InCall => caller_image = arg.image

\* C20 witness: a returned call on a volume that was rescaled and had its zero
\* replaced, with the caller's array as it was
C20_Witness ==
    /\ InCall /\ pc = "returned"
    /\ arg.image = Vol(Q(4, 1), Q(2, 1))
    /\ image = Vol(Q(1, 1), Q(0, 1))
    /\ image_gauss[2] # QZero
    /\ caller_image = Vol(Q(4, 1), Q(2, 1))

\* C20 witness without rescaling: the working volume is the caller's array,
\* its zero was replaced in a copy only
C20_WitnessUnscaled ==
    /\ InCall /\ pc = "returned"
    /\ arg.image = Vol(Q(0, 1), Q(1, 2)) /\ image = arg.image
    /\ image_gauss # image
    /\ caller_image = arg.image

\* the step is the execution of one loop body
IterationStep == InCall /\ Executed' = Executed + 1

\* the segmentation computed before the loop
MaximumLikelihoodSegmentation == Sym("initialize_maximum_likelihood", callno, -1)

\* Iteration 0: the neighborhood prior and the ICM sweep take the pre-loop
\* maximum-likelihood segmentation, the posterior the parameters estimated
\* from it (mu and sigmasq as lines 83-84 left them).
HandoffFirst ==
    (IterationStep /\ Executed = 0) =>
        /\ passed.seg_stats[2] = MaximumLikelihoodSegmentation
        /\ passed'.prob_neighborhood[1] = MaximumLikelihoodSegmentation
        /\ passed'.icm_ising[3] = MaximumLikelihoodSegmentation
        /\ passed'.prob_image[3] = mu /\ passed'.prob_image[4] = sigmasq

\* Iteration i >= 1: the neighborhood prior and the ICM sweep take the
\* segmentation the ICM sweep of iteration i - 1 produced, the posterior the
\* sorted parameters the likelihood evaluation of iteration i - 1 received
\* from its parameter update.
HandoffLater ==
    (IterationStep /\ Executed >= 1) =>
        /\ final_segmentation = Sym("icm_ising", callno, Executed - 1)
        /\ passed'.prob_neighborhood[1] = final_segmentation
        /\ passed'.icm_ising[3] = final_segmentation
        /\ passed'.prob_image[3] = passed.negloglikelihood[2]
        /\ passed'.prob_image[4] = passed.negloglikelihood[3]
        /\ Ascending(passed'.prob_image[3])

\* Every other argument of a collaborator call of an iteration is fixed for
\* the call (the volume, beta, the number of classes) or was produced
\* earlier in the same iteration.
SameIteration ==
    IterationStep =>
        /\ passed'.prob_neighborhood[2] = arg.beta
        /\ passed'.prob_neighborhood[3] = nclasses
        /\ passed'.prob_image[1] = image_gauss
        /\ passed'.prob_image[2] = nclasses
        /\ passed'.prob_image[5] = Sym("prob_neighborhood", callno, Executed)
        /\ passed'.update_param[1] = image_gauss
        /\ passed'.update_param[2] = Posterior(nclasses, callno, Executed)
        /\ passed'.update_param[3] = passed'.prob_image[3]
        /\ passed'.negloglikelihood[1] = image_gauss
        /\ passed'.icm_ising[1] = Sym("negloglikelihood", callno, Executed)
        /\ passed'.icm_ising[2] = arg.beta

\* Besides the handoff, an iteration keeps the energy history and the history
\* lists of the earlier iterations, and extends them.
HistoryCarried ==
    IterationStep =>
        /\ SubSeq(energy_sum', 1, Len(energy_sum)) = energy_sum
        /\ SubSeq(energies', 1, Len(energies)) = energies
        /\ SubSeq(segmentations', 1, Len(segmentations)) = segmentations
        /\ SubSeq(pves', 1, Len(pves)) = pves

\* no iteration has left a value to a later one, apart from the handoff: the
\* energy history holds the seed and the energy of the last iteration at
\* most, the history lists the entry of the last iteration at most
NothingElseKept ==
    InCall =>
        /\ Len(energy_sum) <= 2
        /\ Len(segmentations) <= 1 /\ Len(pves) <= 1 /\ Len(energies) <= 1

\* C19 as stated: the handoff of iteration 0 and of every later iteration,
\* and nothing else carried from one iteration to the next.
C19_OnlyHandoff ==
    /\ [][HandoffFirst]_vars
    /\ [][HandoffLater]_vars
    /\ [][SameIteration]_vars
    /\ []NothingElseKept

\* C19, amended: the handoff of iteration 0 and of every later iteration;
\* besides it, the energy history (early stopping enabled) and the history
\* lists (save_history) are carried from one iteration to the next and
\* extended, and nothing else is passed on to a collaborator.
C19_Handoff ==
    /\ [][HandoffFirst]_vars
    /\ [][HandoffLater]_vars
    /\ [][SameIteration]_vars
    /\ [][HistoryCarried]_vars

\* C19 witness: three iterations with early stopping enabled, in which the
\* update of iteration 1 returned parameters that differ from those of
\* iteration 0 and of seg_stats, and the energy history kept four entries
C19_Witness ==
    /\ InCall /\ pc = "returned" /\ Executed = 3 /\ allow_break /\ save_history
    /\ passed.prob_neighborhood[1] = Sym("icm_ising", callno, 1)
    /\ passed.icm_ising[3] = Sym("icm_ising", callno, 1)
    /\ passed.prob_image[3] = <<Q(3, 4), NaN>>
    /\ passed.negloglikelihood[2] = <<Q(1, 4), Q(3, 4)>>
    /\ Len(energy_sum) = 4 /\ Len(energies) = 3

\* a value a collaborator produced in the first call, as the second call
\* names it
AsSecond(x) == [x EXCEPT ![2] = 2]
AsSecondMap(pve) == [k \in DOMAIN pve |-> AsSecond(pve[k])]

\* C12: the verbose flag has no effect on results.  The second of two calls
\* with the same arguments and the same collaborator responses, made after
\* verbose has been inverted, executes as many iterations as the first,
\* records the same history and returns the same three outputs (entry_hist
\* holds what the first call recorded).
C12_VerboseNoEffect ==
    (callno = 2 /\ pc \in {"returned", "raised"}) =>
        LET n == Len(entry_hist[1])
        IN /\ pc = "returned"
           /\ Executed = n
           /\ Len(segmentations) = 2 * n /\ Len(pves) = 2 * n
           /\ Len(energies) = 2 * n /\ Len(energies_sum) = 2 * n
           /\ \A k \in 1..n :
                 /\ segmentations[n + k] = AsSecond(entry_hist[1][k])
                 /\ pves[n + k] = AsSecondMap(entry_hist[2][k])
                 /\ energies[n + k] = entry_hist[3][k]
                 /\ energies_sum[n + k] = entry_hist[4][k]
           /\ ret[1] = Sym("initialize_maximum_likelihood", 2, -1)
           /\ ret[2] = AsSecond(entry_hist[1][n])
           /\ ret[3] = AsSecondMap(SubSeq(entry_hist[2][n], 2, nclasses))

\* C12 witness: a quiet call of 21 iterations on a changing energy, followed
\* by a verbose call that printed its 21 iterations
C12_Witness ==
    /\ callno = 2 /\ pc = "returned" /\ verbose
    /\ Len(entry_hist[1]) = 21 /\ Executed = 21 /\ exit = "Converged"
    /\ Len(stdout) = 21
    /\ energies[1] # energies[21]

\* C12 witness in the other direction: a verbose call of 11 iterations,
\* followed by a quiet one that printed nothing
C12_WitnessQuiet ==
    /\ callno = 2 /\ pc = "returned" /\ ~verbose
    /\ Len(entry_hist[1]) = 11 /\ Executed = 11 /\ stdout = <<>>

=============================================================================
